---- MODULE Spec2Model ----
(***************************************************************************)
(* The crawl frontier of spacetime-crawler4py (src/crawler/frontier.py),   *)
(* the URL helpers it uses (src/utils/__init__.py, scraper.is_valid), and  *)
(* the duplicate checker (src/utils/duplicate_checker.py) with its         *)
(* tokenizer (src/utils/tokenizer.py), and the URL filter                  *)
(* (src/utils/url_filters.py).                                             *)
(*                                                                         *)
(* Spec is the frontier under calls from any thread, ProtocolSpec the      *)
(* frontier under the worker loop, ResumeSpec the save file over several   *)
(* processes, CheckerSpec the duplicate checker under calls from any       *)
(* thread, TokenizerSpec tokenize_string applied to any text and to its    *)
(* own joined output, FilterSpec UrlFilter.is_valid applied to any value.  *)
(*                                                                         *)
(* Every Frontier method runs its body inside `with self.url_available`,   *)
(* so a method body is one atomic step; the only place a method gives the  *)
(* lock away in the middle is Condition.wait in get_tbd_url.               *)
(*                                                                         *)
(* Time.  The frontier reads time.time() only to compute                   *)
(* now - last_request_time[domain] and compares it with time_delay, so the *)
(* model keeps, per domain, the time elapsed since its last stamp, capped  *)
(* at time_delay (every larger value takes the same branch).  A waiting    *)
(* worker carries the remaining part of its timeout.  Tick lets one unit   *)
(* of time pass.  The clock is taken to be non-decreasing.                 *)
(***************************************************************************)
EXTENDS Integers, Sequences, FiniteSets, TLC

\* ------------------------------------------------------------------ bounds

\* config.time_delay, in ticks
time_delay == 2
\* timeout of the wait on an empty frontier (1.0 s), in ticks
EmptyWaitTimeout == 2
\* number of worker threads
NumWorkers == 2
\* active_workers is not followed below -MaxDeficit
MaxDeficit == 1
\* n, the size of the duplicate checker's window
WindowSize == 2
\* the longest text passed to tokenize_string on its own
MaxTextLen == 3
\* the most path segments of a URL passed to UrlFilter.is_valid
MaxSegments == 3

Workers == 1..NumWorkers

\* ------------------------------------------------------------------- URLs

\* A URL string  scheme://netloc<path><"/" * slashes>[#fragment]
Url(s, n, p, k, f) == [scheme |-> s, netloc |-> n, path |-> p, slashes |-> k, fragment |-> f]

\* Python's None where a URL is expected
NoUrl == Url("", "", "", 0, "")

UrlX      == Url("http",  "a.ics.uci.edu", "/x", 0, "")
UrlXSlash == Url("http",  "a.ics.uci.edu", "/x", 1, "")
UrlXHttps == Url("https", "a.ics.uci.edu", "/x", 0, "")
UrlY      == Url("http",  "a.ics.uci.edu", "/y", 0, "")
UrlZ      == Url("http",  "b.ics.uci.edu", "/z", 0, "")
UrlXFrag  == Url("http",  "a.ics.uci.edu", "/x", 0, "f")
UrlW      == Url("http",  "a.ics.uci.edu", "/w.pdf", 0, "")

\* the URLs callers pass to the frontier
Urls == {UrlX, UrlXSlash, UrlY, UrlZ}

\* config.seed_urls: the seed lists the frontier is constructed with
SeedLists == { <<UrlXHttps>>, <<UrlXSlash, UrlZ>>, <<UrlY, UrlX>> }

\* url.endswith("/"): the string ends with its path's trailing slashes only
\* when nothing follows the path
EndsWithSlash(url) == url.fragment = "" /\ url.slashes > 0

\* utils.normalize: rstrip("/") removes every trailing slash
normalize(url) == IF EndsWithSlash(url) THEN [url EXCEPT !.slashes = 0] ELSE url

\* utils.get_urlhash: sha256 of "netloc/path/params/query/fragment", that is
\* of everything but the scheme (params and query are empty in Urls)
get_urlhash(url) == [netloc |-> url.netloc, path |-> url.path, slashes |-> url.slashes, fragment |-> url.fragment]

\* Frontier._get_domain
_get_domain(url) == url.netloc

\* the hosts of these URLs that one of ALLOWED_DOMAIN_PATTERNS matches
AllowedDomains == {"a.ics.uci.edu", "b.ics.uci.edu"}

\* the paths of these URLs that the extension pattern of is_valid matches
BinaryPaths == {"/w.pdf"}

\* scraper.is_valid, as frontier.py imports it (TESTING_LIMIT is -1).  The
\* pattern is matched against the whole path, trailing slashes included; no
\* URL here has a query, a date in its path or a doku.php path.
is_valid(url) ==
    /\ url.scheme \in {"http", "https"}
    /\ url.netloc # ""
    /\ url.netloc \in AllowedDomains
    /\ ~(url.path \in BinaryPaths /\ url.slashes = 0)

\* ------------------------------------------------------------- arithmetic

Min(a, b) == IF a <= b THEN a ELSE b

Max(a, b) == IF a >= b THEN a ELSE b

\* ---------------------------------------------------- the frontier state

VARIABLES
    save,               \* the shelve: urlhash -> <<url, completed>>
    disk,               \* the save file: what the last sync wrote, what a later process finds
    domain_queues,      \* the dict: its items in insertion order, [domain, queue]
    last_request_time,  \* domain -> time elapsed since the stamp, capped at time_delay
    active_workers,     \* the counter
    lock,               \* the set of workers inside `with self.url_available` (at most one)
    pc,                 \* worker -> "ready" | "working" | "stopped" | "waiting" | "spinning"
    cur,                \* worker -> what its last get_tbd_url returned (NoUrl for None)
    timer,              \* worker -> the time its wait still lasts: the rest of the timeout,
                        \*           0 once notify_all has reached it
    accepted,           \* history: the URLs add_url stored, in order
    dispatched,         \* history: the URLs get_tbd_url returned, in order, each with the time since
                        \*          the previous return of a URL of its host (first: there was none)
    since_dispatch,     \* history: domain -> time since get_tbd_url last returned one of its URLs
    known,              \* history: the last step was an add_url of a URL whose record existed
    boot                \* history: right after __init__ (fresh), its restart argument, the
                        \*          save file it found and config.seed_urls

frontier_vars == <<save, disk, domain_queues, last_request_time, active_workers, lock, pc, cur, timer, accepted, dispatched, since_dispatch, known, boot>>

\* ------------------------------------------- the duplicate checker state

VARIABLES
    _vectors,           \* the deque of stored vectors, oldest first
    _lock,              \* the set of workers holding self._lock (at most one)
    call,               \* worker -> its latest is_duplicate call: where it is (pc), the text it
                        \*           was passed, and (flag) what its scan found, then what it returned
    recent              \* history: the vectors appended last, oldest first, one more than fit

checker_vars == <<_vectors, _lock, call, recent>>

\* --------------------------------- the pure helpers, applied step by step

VARIABLES
    tokenizer,          \* tokenize_string on its own: where the round trip is (pc), the text
                        \*   passed first, what was returned for it (first), the joined text,
                        \*   and what the latest call returned (tokens)
    url_filter          \* UrlFilter.is_valid on its own: the value passed (url) and what the call
                        \*   did (result): "none" before it, "True" | "False" returned, or the
                        \*   name of the exception that left it

utils_vars == <<tokenizer, url_filter>>

\* the value passed to tokenize_string
source_text == tokenizer.text

\* what tokenize_string returned for source_text
tokens_first == tokenizer.first

\* " ".join(tokens_first)
joined_text == tokenizer.joined

\* what the latest call of tokenize_string returned
tokens_out == tokenizer.tokens

\* "idle" | "start" | "tokenized" | "joined" | "retokenized"
tk_pc == tokenizer.pc

\* the value passed to UrlFilter.is_valid
link == url_filter.url

\* what the call of UrlFilter.is_valid did
verdict == url_filter.result

vars == <<frontier_vars, checker_vars, utils_vars>>

\* pc values of a worker that is not inside a Frontier method
Outside == {"ready", "working", "stopped"}

\* ------------------------------------------------------ texts and tokens

\* A value passed as doc_text: a str (a sequence of characters) or not
Text(isstr, chars) == [str |-> isstr, chars |-> chars]

\* the characters of the texts: ASCII letters, other ASCII characters, and
\* one character outside ASCII (written by its code point)
AsciiAlnum == {"a", "b", "c", "A"}

NonAscii == {"U+00E9"}

TextNone  == Text(FALSE, <<>>)
TextEmpty == Text(TRUE, <<>>)
TextPunct == Text(TRUE, <<"-", " ", "U+00E9">>)
TextA     == Text(TRUE, <<"a", " ", "a", " ", "a", " ", "b">>)
TextA2    == Text(TRUE, <<"A", "-", "a", "U+00E9", " ", "a">>)
TextB     == Text(TRUE, <<"b">>)
TextC     == Text(TRUE, <<" ", "c">>)

\* the texts callers pass to is_duplicate
Texts == {TextNone, TextEmpty, TextPunct, TextA, TextA2, TextB, TextC}

\* the characters of the texts passed to tokenize_string on its own
Chars == AsciiAlnum \cup NonAscii \cup {" ", "-"}

\* None, and every str of up to n of these characters
TokenizerInputs(n) == {TextNone} \cup { Text(TRUE, chars) : chars \in UNION { [1..k -> Chars] : k \in 0..n } }

LowerSwapped(c) == IF c = "A" THEN "a" ELSE IF c = "a" THEN "A" ELSE c

\* str.lower on one character
Lower(c) == IF c = "A" THEN "a" ELSE c

\* tokenizer.py:7-10: an ASCII alphanumeric character is kept, any other
\* ASCII character becomes a space, a character outside ASCII is dropped
RECURSIVE Normalized(_)
Normalized(chars) ==
    IF chars = <<>> THEN <<>>
    ELSE (IF Head(chars) \in AsciiAlnum THEN <<Head(chars)>>
          ELSE IF Head(chars) \in NonAscii THEN <<>>
          ELSE <<" ">>) \o Normalized(Tail(chars))

\* str.split(): the maximal runs without a space; word is the run being read
RECURSIVE Split(_, _)
Split(chars, word) ==
    IF chars = <<>> THEN (IF word = <<>> THEN <<>> ELSE <<word>>)
    ELSE IF Head(chars) = " " THEN (IF word = <<>> THEN <<>> ELSE <<word>>) \o Split(Tail(chars), <<>>)
    ELSE Split(Tail(chars), Append(word, Head(chars)))

\* tokenizer.tokenize_string; every word of Normalized is alphanumeric
tokenize_string(text) ==
    IF ~text.str \/ text.chars = <<>> THEN <<>>
    ELSE LET words == Split(Normalized(text.chars), <<>>)
         IN  [i \in 1..Len(words) |-> [k \in 1..Len(words[i]) |-> Lower(words[i][k])]]

\* " ".join(tokens)
RECURSIVE Join(_)
Join(tokens) ==
    IF tokens = <<>> THEN <<>>
    ELSE IF Len(tokens) = 1 THEN Head(tokens)
    ELSE Head(tokens) \o <<" ">> \o Join(Tail(tokens))

\* ------------------------------------------------------------- vectors

\* duplicate_checker._to_vector: dict(Counter(tokens))
_to_vector(tokens) ==
    [t \in { tokens[i] : i \in 1..Len(tokens) } |-> Cardinality({ i \in 1..Len(tokens) : tokens[i] = t })]

\* DuplicateChecker._vectorize
_vectorize(text) == IF tokenize_string(text) # <<>> THEN _to_vector(tokenize_string(text)) ELSE <<>>

\* the sum of f over the keys in S
RECURSIVE Sum(_, _)
Sum(f, S) == IF S = {} THEN 0 ELSE LET k == CHOOSE k \in S : TRUE IN f[k] + Sum(f, S \ {k})

\* _cosine_sim: dot, and the squares of norm_a and norm_b
Dot(vec_a, vec_b) == Sum([k \in DOMAIN vec_a \cap DOMAIN vec_b |-> vec_a[k] * vec_b[k]], DOMAIN vec_a \cap DOMAIN vec_b)

NormSquared(vec) == Sum([k \in DOMAIN vec |-> vec[k] * vec[k]], DOMAIN vec)

\* similarity_threshold, 0.9, as a fraction
ThresholdNum == 9

ThresholdDen == 10

\* `_cosine_sim(vec, stored) >= self.threshold`: 0.0 for an empty vector or
\* a zero norm, else dot / (norm_a * norm_b), compared in squares
Matches(vec_a, vec_b) ==
    IF DOMAIN vec_a = {} \/ DOMAIN vec_b = {} THEN FALSE
    ELSE IF NormSquared(vec_a) = 0 \/ NormSquared(vec_b) = 0 THEN FALSE
    ELSE ThresholdDen * ThresholdDen * Dot(vec_a, vec_b) * Dot(vec_a, vec_b) >= ThresholdNum * ThresholdNum * NormSquared(vec_a) * NormSquared(vec_b)

\* ---------------------------------------------------- DuplicateChecker

\* the last n items of the sequence s (all of it when it is shorter)
LastN(s, n) == IF Len(s) <= n THEN s ELSE SubSeq(s, Len(s) - n + 1, Len(s))

\* a full deque refusing the new vector
DequeAppendKeepOld(vectors, vec) == IF Len(vectors) >= WindowSize THEN vectors ELSE Append(vectors, vec)

\* deque(maxlen=n).append: when full, the item at the left end is discarded
DequeAppend(vectors, vec) == LastN(Append(vectors, vec), WindowSize)

\* the scan never matching
HitNever(vec, vectors) == FALSE

\* the scan stops after the oldest vector
HitOldestOnly(vec, vectors) == vectors # <<>> /\ Matches(vec, vectors[1])

\* duplicate_checker.py:39-41: the scan finds a stored vector that matches
Hit(vec, vectors) == \E i \in 1..Len(vectors) : Matches(vec, vectors[i])

\* an empty vector taken for a vector
EmptyNever(vec) == FALSE

\* `not vec`
Empty(vec) == DOMAIN vec = {}

\* the critical section entered whoever holds the lock
LockFreeAlways(holders) == TRUE

\* `with self._lock` is entered when no thread holds the lock
LockFree(holders) == holders = {}

\* the append reached on a hit as well
InsertsAlways(hit) == TRUE

\* duplicate_checker.py:41-42: the append is reached only when the scan
\* returned nothing
Inserts(hit) == ~hit

\* a worker that is in no call
Idle == [pc |-> "idle", text |-> TextNone, flag |-> FALSE]

\* DuplicateChecker.__init__
CheckerInit ==
    /\ _vectors = <<>>
    /\ _lock = {}
    /\ call = [w \in Workers |-> Idle]
    /\ recent = <<>>

\* worker w calls is_duplicate(text)
is_duplicate(w, text) ==
    /\ call[w].pc \in {"idle", "done"}
    /\ call' = [call EXCEPT ![w] = [pc |-> "entered", text |-> text, flag |-> FALSE]]
    /\ UNCHANGED <<_vectors, _lock, recent>>
    /\ UNCHANGED <<frontier_vars, utils_vars>>

\* duplicate_checker.py:35-37: no vector, return False
ReturnEmpty(w) ==
    /\ call[w].pc = "entered"
    /\ Empty(_vectorize(call[w].text))
    /\ call' = [call EXCEPT ![w].pc = "done", ![w].flag = FALSE]
    /\ UNCHANGED <<_vectors, _lock, recent>>
    /\ UNCHANGED <<frontier_vars, utils_vars>>

\* duplicate_checker.py:38-41: take the lock and scan the stored vectors
Scan(w) ==
    /\ call[w].pc = "entered"
    /\ ~Empty(_vectorize(call[w].text))
    /\ LockFree(_lock)
    /\ _lock' = _lock \cup {w}
    /\ call' = [call EXCEPT ![w].pc = "scanned", ![w].flag = Hit(_vectorize(call[w].text), _vectors)]
    /\ UNCHANGED <<_vectors, recent>>
    /\ UNCHANGED <<frontier_vars, utils_vars>>

\* duplicate_checker.py:41-43: return True, or append and return False; the
\* lock is released
Finish(w) ==
    /\ call[w].pc = "scanned"
    /\ _vectors' = IF Inserts(call[w].flag) THEN DequeAppend(_vectors, _vectorize(call[w].text)) ELSE _vectors
    /\ recent' = IF Inserts(call[w].flag) THEN LastN(Append(recent, _vectorize(call[w].text)), WindowSize + 1) ELSE recent
    /\ _lock' = _lock \ {w}
    /\ call' = [call EXCEPT ![w].pc = "done"]
    /\ UNCHANGED <<frontier_vars, utils_vars>>

\* ------------------------------------------------- the dict domain_queues

\* the position of domain's item in the dict, 0 when it has none
QueueIndex(dq, domain) == IF \E i \in 1..Len(dq) : dq[i].domain = domain THEN CHOOSE i \in 1..Len(dq) : dq[i].domain = domain ELSE 0

\* appendleft in place of append
QueueAppendLeft(queue, url) == <<url>> \o queue

\* deque.append (frontier.py:62, 124)
QueueAppend(queue, url) == Append(queue, url)

\* deque.popleft (frontier.py:84): the URL taken, and what is left
QueueHead(queue) == Head(queue)

QueueRest(queue) == Tail(queue)

\* frontier.py:122-124: create the domain's deque on demand, then append
Enqueue(dq, url) ==
    LET domain == _get_domain(url)
        i == QueueIndex(dq, domain)
    IN  IF i = 0
        THEN Append(dq, [domain |-> domain, queue |-> QueueAppend(<<>>, url)])
        ELSE [dq EXCEPT ![i].queue = QueueAppend(@, url)]

\* del self.domain_queues[best_domain]
DeleteItem(dq, i) == [j \in 1..(Len(dq) - 1) |-> IF j < i THEN dq[j] ELSE dq[j + 1]]

\* any(q for q in self.domain_queues.values())
has_urls(dq) == \E i \in 1..Len(dq) : dq[i].queue # <<>>

\* ------------------------------------------------------------ add_url

\* a completed record counted as unseen
UnseenOrCompleted(urlhash, sv) == urlhash \notin DOMAIN sv \/ sv[urlhash][2]

\* the membership test left out
UnseenAlways(urlhash, sv) == TRUE

\* `urlhash not in self.save`
Unseen(urlhash, sv) == urlhash \notin DOMAIN sv

\* self.save.sync() left out
SyncNot(dsk, sv) == dsk

\* self.save.sync(): the file holds what the shelve holds
Sync(dsk, sv) == sv

\* self.save[urlhash] = value
Store(sv, urlhash, value) == [h \in DOMAIN sv \cup {urlhash} |-> IF h = urlhash THEN value ELSE sv[h]]

\* the hash taken of the URL as passed, before normalize
AddUrlResultRawHash(sv, dq, raw) ==
    LET url == normalize(raw)
        urlhash == get_urlhash(raw)
    IN  IF urlhash \notin DOMAIN sv
        THEN [save |-> [h \in DOMAIN sv \cup {urlhash} |-> IF h = urlhash THEN <<url, FALSE>> ELSE sv[h]],
              domain_queues |-> IF \E i \in 1..Len(dq) : dq[i].domain = url.netloc
                                THEN [i \in 1..Len(dq) |-> IF dq[i].domain = url.netloc THEN [dq[i] EXCEPT !.queue = Append(@, url)] ELSE dq[i]]
                                ELSE Append(dq, [domain |-> url.netloc, queue |-> <<url>>]),
              stored |-> TRUE, url |-> url]
        ELSE [save |-> sv, domain_queues |-> dq, stored |-> FALSE, url |-> url]

\* add_url on the state (save, domain_queues): the state afterwards and
\* whether the URL was stored
AddUrlResult(sv, dq, raw) ==
    LET url == normalize(raw)
        urlhash == get_urlhash(url)
    IN  IF Unseen(urlhash, sv)
        THEN [save |-> Store(sv, urlhash, <<url, FALSE>>), domain_queues |-> Enqueue(dq, url), stored |-> TRUE, url |-> url]
        ELSE [save |-> sv, domain_queues |-> dq, stored |-> FALSE, url |-> url]

\* ---------------------------------------------------------- get_tbd_url

\* now - self.last_request_time.get(domain, 0): time.time() is seconds since
\* the epoch, so a domain that was never stamped is past every delay
Elapsed(lrt, domain) == IF domain \in DOMAIN lrt THEN lrt[domain] ELSE time_delay

\* the comparison one tick short
IsReadyEarly(elapsed) == elapsed >= time_delay - 1

\* `elapsed >= self.config.time_delay`
IsReady(elapsed) == elapsed >= time_delay

\* the item the scan breaks at: the first one, in dict order, whose queue is
\* non-empty and whose domain is ready; 0 when the scan runs to the end
FirstReady(dq, lrt) ==
    LET ready == { i \in 1..Len(dq) : dq[i].queue # <<>> /\ IsReady(Elapsed(lrt, dq[i].domain)) }
    IN  IF ready = {} THEN 0 ELSE CHOOSE i \in ready : \A j \in ready : i <= j

\* the values `remaining` takes in a scan that finds no ready domain
Remaining(dq, lrt) == { time_delay - Elapsed(lrt, dq[i].domain) : i \in { j \in 1..Len(dq) : dq[j].queue # <<>> } }

\* shortest_wait of such a scan (Remaining is not empty)
ShortestWait(dq, lrt) == CHOOSE r \in Remaining(dq, lrt) : \A q \in Remaining(dq, lrt) : r <= q

\* the test without the count of workers in progress
FinishedEarly(hasUrls, aw) == ~hasUrls

\* `not has_urls and self.active_workers == 0`
Finished(hasUrls, aw) == ~hasUrls /\ aw = 0

\* the stamp left out
StampNot(lrt, domain) == lrt

\* self.last_request_time[best_domain] = time.time()
Stamp(lrt, domain) == [d \in DOMAIN lrt \cup {domain} |-> IF d = domain THEN 0 ELSE lrt[d]]

\* -------------------------------------------------------------- history

\* the time since a URL of the host was last returned, capped at time_delay
SinceDispatch(domain) == IF domain \in DOMAIN since_dispatch THEN since_dispatch[domain] ELSE time_delay

\* no thread is notified
NotifyNone == timer

\* notify_all: the wait of every waiting worker is over
NotifyAll == [w \in Workers |-> IF pc[w] = "waiting" THEN 0 ELSE timer[w]]

\* ------------------------------------------------------------ __init__

\* boot once the first call after __init__ was made
NoBoot == [fresh |-> FALSE, restart |-> FALSE, store |-> <<>>, seeds |-> <<>>]

\* frontier.py:40-42 with restart: an empty shelve, then add_url of every seed
RECURSIVE Seeded(_, _)
Seeded(st, seeds) ==
    IF seeds = <<>> THEN st
    ELSE LET r == AddUrlResult(st.save, st.domain_queues, Head(seeds))
         IN  Seeded([save |-> r.save, domain_queues |-> r.domain_queues,
                     accepted |-> IF r.stored THEN Append(st.accepted, r.url) ELSE st.accepted],
                    Tail(seeds))

\* every record not yet completed counted as to be downloaded
PendingUnfiltered(record) == ~record[2]

\* `not completed and is_valid(url)`
Pending(record) == ~record[2] /\ is_valid(record[1])

\* the orders in which self.save.values() can yield the records that
\* _parse_save_file queues (a dbm file keeps no insertion order)
Orders(sv) ==
    LET keys == { urlhash \in DOMAIN sv : Pending(sv[urlhash]) }
    IN  { order \in [1..Cardinality(keys) -> keys] : \A i, j \in 1..Cardinality(keys) : i # j => order[i] # order[j] }

\* Frontier._parse_save_file: the queues after the records order names were
\* visited
RECURSIVE _parse_save_file(_, _, _)
_parse_save_file(dq, sv, order) ==
    IF order = <<>> THEN dq
    ELSE _parse_save_file(Enqueue(dq, sv[Head(order)][1]), sv, Tail(order))

\* seed although the store has records
StoreEmptyOrNot(sv) == TRUE

\* `not self.save`
StoreEmpty(sv) == DOMAIN sv = {}

\* frontier.py:28-48: the frontier built over the save file `store`
Constructed(store, restart, seeds, order) ==
    LET opened == IF restart THEN <<>> ELSE store
        loaded == [save |-> opened,
                   domain_queues |-> IF restart THEN <<>> ELSE _parse_save_file(<<>>, opened, order),
                   accepted |-> <<>>]
    IN  IF restart \/ StoreEmpty(opened) THEN Seeded(loaded, seeds) ELSE loaded

\* the frontier constructed with restart and no save file
FrontierInit(seeds) ==
    LET st == Seeded([save |-> <<>>, domain_queues |-> <<>>, accepted |-> <<>>], seeds)
    IN  /\ save = st.save
        /\ domain_queues = st.domain_queues
        /\ accepted = st.accepted
        /\ last_request_time = <<>>
        /\ active_workers = 0
        /\ lock = {}
        /\ pc = [w \in Workers |-> "ready"]
        /\ cur = [w \in Workers |-> NoUrl]
        /\ timer = [w \in Workers |-> 0]
        /\ dispatched = <<>>
        /\ since_dispatch = <<>>
        /\ known = FALSE
        /\ disk = st.save
        /\ boot = [fresh |-> TRUE, restart |-> TRUE, store |-> <<>>, seeds |-> seeds]

\* no call of tokenize_string on its own
TokenizerIdle == tokenizer = [pc |-> "idle", text |-> TextNone, first |-> <<>>, joined |-> TextEmpty, tokens |-> <<>>]

\* ------------------------------------------------------- the URL filter

\* A value passed to UrlFilter.is_valid: a str
\*   scheme://netloc</segment>*<"/" if slash>[?query]
\* or an object of another type.  A segment is a sequence of pieces: a
\* decimal digit, the character SUPERSCRIPT TWO (written by its code point),
\* or a run of other characters.
Link(t, s, n, segs, sl, q) == [type |-> t, scheme |-> s, netloc |-> n, segments |-> segs, slash |-> sl, query |-> q]

LinkNone == Link("NoneType", "", "", <<>>, FALSE, "")

LinkInt == Link("int", "", "", <<>>, FALSE, "")

AsciiDigits == {"0", "1", "2", "3", "4", "8", "9"}

\* characters outside 0..9 for which str.isdigit is true
OtherDigits == {"U+00B2"}

\* the path segments of the URLs passed to UrlFilter.is_valid
PathSegments ==
    { <<"events">>, <<"~prof">>, <<"paper.html">>, <<"x.pdf">>, <<"login.php">>,
      <<"2", "0", "2", "4">>, <<"1", "8", "9", "9">>, <<"0", "3">>, <<"1", "3">>,
      <<"U+00B2", "U+00B2", "U+00B2", "U+00B2">>, <<"U+00B2">> }

\* scheme and netloc of these URLs: an allowed host, a scheme that is not
\* http(s), a host outside the allowed domains, a netloc with an unclosed "["
Origins == { <<"http", "x.ics.uci.edu">>, <<"ftp", "x.ics.uci.edu">>, <<"http", "www.example.com">>, <<"http", "[::1">> }

Queries == {"", "q=1"}

\* the values passed to UrlFilter.is_valid: None, an int, and the URLs of
\* up to n path segments
Links(n) ==
    {LinkNone, LinkInt} \cup
    { Link("str", o[1], o[2], segs, sl, q) :
        o \in Origins, segs \in UNION { [1..k -> PathSegments] : k \in 0..n }, sl \in BOOLEAN, q \in Queries }

\* urlparse(url) raises ValueError("Invalid IPv6 URL"): the netloc has one
\* of "[" and "]" without the other
UnbalancedNetlocs == {"[::1"}

\* the netlocs one of allowed_domain_patterns matches (ics.uci.edu and its
\* subdomains, as scraper.ALLOWED_DOMAIN_PATTERNS)
AllowedNetlocs == {"x.ics.uci.edu"}

\* the pieces that end with one of binary_extensions
BinaryPieces == {"x.pdf"}

\* the pieces (wp-login|login|signin|sign-in)\.php is found in
LoginPieces == {"login.php"}

\* the queries with a key in EXACT_TRAP_PARAMS or containing one of CONTAINS_TRAP_PARAMS
SearchQueries == {"q=1"}

\* str.isdigit
IsDigit(segment) == segment # <<>> /\ \A k \in 1..Len(segment) : segment[k] \in AsciiDigits \cup OtherDigits

\* the value of a string of decimal digits
RECURSIVE DecimalValue(_)
DecimalValue(segment) ==
    IF segment = <<>> THEN 0
    ELSE 10 * DecimalValue(SubSeq(segment, 1, Len(segment) - 1))
         + (CHOOSE v \in 0..9 : ToString(v) = segment[Len(segment)])

\* int(s) raises ValueError for a digit that is not a decimal digit
IntRaises(segment) == \E k \in 1..Len(segment) : segment[k] \notin AsciiDigits

\* url_filters.py:62-68, the loop from index i on: "True" (a year and a
\* month follow each other), "False" (the loop ends), "ValueError" (int raised)
RECURSIVE YearMonthLoop(_, _)
YearMonthLoop(segments, i) ==
    IF i > Len(segments) - 1 THEN "False"
    ELSE IF IsDigit(segments[i]) /\ Len(segments[i]) = 4
         THEN IF IntRaises(segments[i]) THEN "ValueError"
              ELSE IF DecimalValue(segments[i]) >= 1900 /\ DecimalValue(segments[i]) <= 2099 /\ IsDigit(segments[i + 1])
                   THEN IF IntRaises(segments[i + 1]) THEN "ValueError"
                        ELSE IF DecimalValue(segments[i + 1]) >= 1 /\ DecimalValue(segments[i + 1]) <= 12 THEN "True"
                        ELSE YearMonthLoop(segments, i + 1)
                   ELSE YearMonthLoop(segments, i + 1)
         ELSE YearMonthLoop(segments, i + 1)

\* UrlFilter._is_calendar_path; no path here has an ISO date, /events/month/
\* or /timeline, no query a date word
_is_calendar_path(url) == YearMonthLoop(url.segments, 1)

\* any(path_lower.endswith(ext) ...): the path ends with its last segment
\* unless a "/" follows it
EndsWithBinaryExtension(url) ==
    url.segments # <<>> /\ ~url.slash /\ url.segments[Len(url.segments)][Len(url.segments[Len(url.segments)])] \in BinaryPieces

\* UrlFilter._is_login_page: re.search over the whole path
_is_login_page(url) == \E i \in 1..Len(url.segments) : \E k \in 1..Len(url.segments[i]) : url.segments[i][k] \in LoginPieces

\* UrlFilter._is_search_or_filter_page
_is_search_or_filter_page(url) == url.query # "" /\ url.query \in SearchQueries

\* UrlFilter.is_valid: "True" or "False" when it returns, the exception's
\* name when it raises.  urlparse(None) gives empty bytes fields (no scheme),
\* urlparse of an int raises AttributeError, which is caught.  The rules not
\* named here (wiki, gitlab, display.html, eppstein, video, slide, report,
\* pagination, file extension in query, sort query) match none of Links.
UrlFilter_is_valid(url) ==
    IF url.type # "str" THEN "False"
    ELSE IF url.netloc \in UnbalancedNetlocs THEN "ValueError"
    ELSE IF url.scheme \notin {"http", "https"} THEN "False"
    ELSE IF url.netloc = "" THEN "False"
    ELSE IF url.netloc \notin AllowedNetlocs THEN "False"
    ELSE IF EndsWithBinaryExtension(url) THEN "False"
    ELSE IF _is_login_page(url) THEN "False"
    ELSE IF _is_calendar_path(url) = "ValueError" THEN "ValueError"
    ELSE IF _is_calendar_path(url) = "True" THEN "False"
    ELSE IF _is_search_or_filter_page(url) THEN "False"
    ELSE "True"

\* no call of UrlFilter.is_valid
FilterIdle == url_filter = [url |-> LinkNone, result |-> "none"]

UtilsIdle == TokenizerIdle /\ FilterIdle

Init == CheckerInit /\ UtilsIdle /\ \E seeds \in SeedLists : FrontierInit(seeds)

\* ------------------------------------------------------------- actions

\* Frontier.add_url(url), called by worker w
add_url(w, raw) ==
    /\ pc[w] \in Outside
    /\ lock = {}
    /\ LET r == AddUrlResult(save, domain_queues, raw)
       IN  /\ save' = r.save
           /\ domain_queues' = r.domain_queues
           /\ timer' = IF r.stored THEN NotifyAll ELSE timer
           /\ accepted' = IF r.stored THEN Append(accepted, r.url) ELSE accepted
           /\ known' = (get_urlhash(normalize(raw)) \in DOMAIN save)
           /\ disk' = IF r.stored THEN Sync(disk, r.save) ELSE disk
    /\ boot' = NoBoot
    /\ UNCHANGED <<last_request_time, active_workers, lock, pc, cur, dispatched, since_dispatch>>
    /\ UNCHANGED <<checker_vars, utils_vars>>

\* the decrement left out
CompletesNot(aw) == aw

\* self.active_workers -= 1
Completes(aw) == aw - 1

\* Frontier.mark_url_complete(url), called by worker w
mark_url_complete(w, url) ==
    /\ pc[w] \in Outside
    /\ lock = {}
    /\ active_workers > -MaxDeficit
    /\ save' = Store(save, get_urlhash(url), <<url, TRUE>>)
    /\ disk' = Sync(disk, save')
    /\ active_workers' = Completes(active_workers)
    /\ known' = FALSE
    /\ boot' = NoBoot
    /\ timer' = NotifyAll
    /\ IF pc[w] = "working" /\ url = cur[w]
       THEN pc' = [pc EXCEPT ![w] = "ready"] /\ cur' = [cur EXCEPT ![w] = NoUrl]
       ELSE UNCHANGED <<pc, cur>>
    /\ UNCHANGED <<domain_queues, last_request_time, lock, accepted, dispatched, since_dispatch>>
    /\ UNCHANGED <<checker_vars, utils_vars>>

\* What the caller does with the value get_tbd_url returns.  A worker thread
\* (keep) holds the URL until it has marked it complete and leaves its loop
\* on None; any other caller (~keep) is at once free to call again.
Return(w, url, keep) ==
    /\ pc' = [pc EXCEPT ![w] = IF ~keep THEN "ready" ELSE IF url = NoUrl THEN "stopped" ELSE "working"]
    /\ cur' = IF keep THEN [cur EXCEPT ![w] = url] ELSE cur
    /\ lock' = {}
    /\ timer' = [timer EXCEPT ![w] = 0]
    /\ known' = FALSE
    /\ boot' = NoBoot

\* frontier.py:92-98: the scan broke at item i
Dispatch(w, i, keep) ==
    LET domain == domain_queues[i].domain
        url == QueueHead(domain_queues[i].queue)
        rest == QueueRest(domain_queues[i].queue)
    IN  /\ last_request_time' = Stamp(last_request_time, domain)
        /\ active_workers' = active_workers + 1
        /\ domain_queues' = IF rest = <<>> THEN DeleteItem(domain_queues, i) ELSE [domain_queues EXCEPT ![i].queue = rest]
        /\ Return(w, url, keep)
        /\ dispatched' = Append(dispatched, [url |-> url, first |-> _get_domain(url) \notin DOMAIN since_dispatch, gap |-> SinceDispatch(_get_domain(url))])
        /\ since_dispatch' = [d \in DOMAIN since_dispatch \cup {_get_domain(url)} |-> IF d = _get_domain(url) THEN 0 ELSE since_dispatch[d]]
        /\ UNCHANGED <<save, disk, accepted>>

\* self.url_available.wait(timeout): the lock is released while waiting
Wait(w, timeout) ==
    /\ pc' = [pc EXCEPT ![w] = "waiting"]
    /\ timer' = [timer EXCEPT ![w] = timeout]
    /\ lock' = {}
    /\ known' = FALSE
    /\ boot' = NoBoot
    /\ UNCHANGED <<save, disk, domain_queues, last_request_time, active_workers, cur, accepted, dispatched, since_dispatch>>

\* the loop goes round with the lock held; no pass changes anything, so the
\* worker stays in this state
Spin(w) ==
    /\ pc' = [pc EXCEPT ![w] = "spinning"]
    /\ lock' = {w}
    /\ timer' = [timer EXCEPT ![w] = 0]
    /\ known' = FALSE
    /\ boot' = NoBoot
    /\ UNCHANGED <<save, disk, domain_queues, last_request_time, active_workers, cur, accepted, dispatched, since_dispatch>>

\* how one pass of the `while True` body ends (frontier.py:92-112):
\* "url" it returns a URL, "None" it returns None, "wait" it waits on the
\* condition, "spin" no branch applies and the next pass starts at once
PassOutcome(dq, lrt, aw) ==
    IF FirstReady(dq, lrt) # 0 THEN "url"
    ELSE IF Finished(has_urls(dq), aw) THEN "None"
    ELSE IF ~has_urls(dq) /\ aw > 0 THEN "wait"
    ELSE IF Remaining(dq, lrt) # {} THEN "wait"
    ELSE "spin"

\* the timeout of the wait
WaitTimeout(dq, lrt) == IF ~has_urls(dq) THEN EmptyWaitTimeout ELSE ShortestWait(dq, lrt)

\* one pass of the `while True` body of get_tbd_url, by the lock's holder w
LoopBody(w, keep) ==
    LET outcome == PassOutcome(domain_queues, last_request_time, active_workers)
    IN  CASE outcome = "url" -> Dispatch(w, FirstReady(domain_queues, last_request_time), keep)
          [] outcome = "None" ->
                /\ Return(w, NoUrl, keep)
                /\ UNCHANGED <<save, disk, domain_queues, last_request_time, active_workers, accepted, dispatched, since_dispatch>>
          [] outcome = "wait" -> Wait(w, WaitTimeout(domain_queues, last_request_time))
          [] outcome = "spin" -> Spin(w)

\* Frontier.get_tbd_url(), called by worker w: up to its return or first wait
get_tbd_url(w, keep) ==
    /\ pc[w] \in Outside
    /\ lock = {}
    /\ LoopBody(w, keep)
    /\ UNCHANGED <<checker_vars, utils_vars>>

\* wait returns (notified, or timed out) once the lock is free, and the loop goes round
WakeUp(w, keep) ==
    /\ pc[w] = "waiting"
    /\ timer[w] = 0
    /\ lock = {}
    /\ LoopBody(w, keep)
    /\ UNCHANGED <<checker_vars, utils_vars>>

\* one unit of time passes
Tick ==
    /\ last_request_time' = [d \in DOMAIN last_request_time |-> Min(last_request_time[d] + 1, time_delay)]
    /\ since_dispatch' = [d \in DOMAIN since_dispatch |-> Min(since_dispatch[d] + 1, time_delay)]
    /\ timer' = [w \in Workers |-> IF pc[w] = "waiting" THEN Max(timer[w] - 1, 0) ELSE timer[w]]
    /\ known' = FALSE
    /\ boot' = NoBoot
    /\ UNCHANGED <<save, disk, domain_queues, active_workers, lock, pc, cur, accepted, dispatched>>
    /\ UNCHANGED <<checker_vars, utils_vars>>

\* The process ends, at whatever point, and a new one constructs its
\* Frontier over the save file: Frontier.__init__(config, restart)
Launch(restart, seeds) ==
    \E order \in Orders(disk) :
        LET st == Constructed(disk, restart, seeds, order)
        IN  /\ save' = st.save
            /\ disk' = st.save
            /\ domain_queues' = st.domain_queues
            /\ accepted' = st.accepted
            /\ last_request_time' = <<>>
            /\ active_workers' = 0
            /\ lock' = {}
            /\ pc' = [w \in Workers |-> "ready"]
            /\ cur' = [w \in Workers |-> NoUrl]
            /\ timer' = [w \in Workers |-> 0]
            /\ dispatched' = <<>>
            /\ since_dispatch' = <<>>
            /\ known' = FALSE
            /\ boot' = [fresh |-> TRUE, restart |-> restart, store |-> disk, seeds |-> seeds]
            /\ UNCHANGED <<checker_vars, utils_vars>>

\* Any thread may call any method with any URL.
Next ==
    \/ \E w \in Workers, url \in Urls : add_url(w, url)
    \/ \E w \in Workers, url \in Urls : mark_url_complete(w, url)
    \/ \E w \in Workers : get_tbd_url(w, FALSE)
    \/ \E w \in Workers : WakeUp(w, FALSE)
    \/ Tick

Spec == Init /\ [][Next]_vars

\* The worker threads' loop: get_tbd_url, add_url of the links found,
\* mark_url_complete of the URL it was given; it ends on None.
WorkerGet(w) == pc[w] = "ready" /\ get_tbd_url(w, TRUE)

WorkerAdd(w, url) == pc[w] = "working" /\ add_url(w, url)

WorkerComplete(w) == pc[w] = "working" /\ mark_url_complete(w, cur[w])

ProtocolNext ==
    \/ \E w \in Workers : WorkerGet(w)
    \/ \E w \in Workers, url \in Urls : WorkerAdd(w, url)
    \/ \E w \in Workers : WorkerComplete(w)
    \/ \E w \in Workers : WakeUp(w, TRUE)
    \/ Tick

\* A thread that can take a step takes it, and time passes.
ProtocolFairness ==
    /\ WF_vars(Tick)
    /\ \A w \in Workers : WF_vars(WorkerGet(w)) /\ WF_vars(WakeUp(w, TRUE)) /\ WF_vars(WorkerComplete(w))

ProtocolSpec == Init /\ [][ProtocolNext]_vars /\ ProtocolFairness

\* the URLs callers pass to a frontier that is constructed again and again
ResumeUrls == {UrlX, UrlXFrag, UrlW}

\* The save file over the life of several processes: the calls that write
\* it, with any URL, and the process ending and being started again, fresh
\* or resuming.
ResumeNext ==
    \/ \E w \in Workers, url \in ResumeUrls : add_url(w, url)
    \/ \E w \in Workers, url \in ResumeUrls : mark_url_complete(w, url)
    \/ \E restart \in BOOLEAN, seeds \in SeedLists : Launch(restart, seeds)

ResumeSpec == Init /\ [][ResumeNext]_vars

\* Any thread may call is_duplicate with any text at any time.
CheckerNext ==
    \/ \E w \in Workers, text \in Texts : is_duplicate(w, text)
    \/ \E w \in Workers : ReturnEmpty(w)
    \/ \E w \in Workers : Scan(w)
    \/ \E w \in Workers : Finish(w)

\* a new DuplicateChecker beside a new Frontier
CheckerStart == CheckerInit /\ UtilsIdle /\ FrontierInit(<<UrlXHttps>>)

CheckerSpec == CheckerStart /\ [][CheckerNext]_vars

\* tokenize_string is about to be called with any text
TokenizerInit ==
    tokenizer \in { [pc |-> "start", text |-> text, first |-> <<>>, joined |-> TextEmpty, tokens |-> <<>>] : text \in TokenizerInputs(MaxTextLen) }

\* tokens = tokenize_string(text)
Tokenize ==
    /\ tk_pc = "start"
    /\ tokenizer' = [tokenizer EXCEPT !.pc = "tokenized", !.first = tokenize_string(source_text), !.tokens = tokenize_string(source_text)]
    /\ UNCHANGED <<url_filter, frontier_vars, checker_vars>>

\* " ".join(tokens)
Rejoin ==
    /\ tk_pc = "tokenized"
    /\ tokenizer' = [tokenizer EXCEPT !.pc = "joined", !.joined = Text(TRUE, Join(tokens_first))]
    /\ UNCHANGED <<url_filter, frontier_vars, checker_vars>>

\* tokenize_string(" ".join(tokens))
Retokenize ==
    /\ tk_pc = "joined"
    /\ tokenizer' = [tokenizer EXCEPT !.pc = "retokenized", !.tokens = tokenize_string(joined_text)]
    /\ UNCHANGED <<url_filter, frontier_vars, checker_vars>>

\* A text is tokenized, its tokens are joined and tokenized again.
TokenizerNext == Tokenize \/ Rejoin \/ Retokenize

TokenizerStart == CheckerInit /\ FrontierInit(<<UrlXHttps>>) /\ FilterIdle /\ TokenizerInit

TokenizerSpec == TokenizerStart /\ [][TokenizerNext]_vars

\* UrlFilter.is_valid is about to be called with any value
FilterInit == url_filter \in { [url |-> url, result |-> "none"] : url \in Links(MaxSegments) }

\* UrlFilter.is_valid(url)
Check ==
    /\ verdict = "none"
    /\ url_filter' = [url_filter EXCEPT !.result = UrlFilter_is_valid(link)]
    /\ UNCHANGED <<tokenizer, frontier_vars, checker_vars>>

FilterNext == Check

FilterStart == CheckerInit /\ FrontierInit(<<UrlXHttps>>) /\ TokenizerIdle /\ FilterInit

FilterSpec == FilterStart /\ [][FilterNext]_vars

\* ------------------------------------------------------------- claims

Completed(urlhash) == urlhash \in DOMAIN save /\ save[urlhash][2]

DispatchedUrls == { dispatched[i].url : i \in 1..Len(dispatched) }

\* the URLs get_tbd_url returned that no mark_url_complete has completed
InFlight == { url \in DispatchedUrls : ~Completed(get_urlhash(url)) }

\* mark_url_complete was called on a URL the frontier had not seen: a
\* record exists that no add_url created
Anomalous == \E urlhash \in DOMAIN save : \A i \in 1..Len(accepted) : get_urlhash(accepted[i]) # urlhash

\* the position of url in the sequence s, 0 when it is not in it
Position(s, url) == IF \E i \in 1..Len(s) : s[i] = url THEN CHOOSE i \in 1..Len(s) : s[i] = url ELSE 0

\* how a pass of get_tbd_url started in the current state would end
Outcome == PassOutcome(domain_queues, last_request_time, active_workers)

\* C1: whenever get_tbd_url returns a URL of a host it has returned a URL of
\* before, at least time_delay has passed since that earlier return.
Politeness == \A i \in 1..Len(dispatched) : ~dispatched[i].first => dispatched[i].gap >= time_delay

\* C1 witness: a host was dispatched to, a worker had to wait out its
\* cooldown, and the host was dispatched to again.
PolitenessWitness ==
    /\ Len(dispatched) >= 2
    /\ ~dispatched[Len(dispatched)].first
    /\ _get_domain(dispatched[Len(dispatched)].url) = _get_domain(dispatched[Len(dispatched) - 1].url)

\* C2: whenever a pass of get_tbd_url can run, it returns None only if
\* every queue is empty and active_workers is 0, and it waits if the queues
\* are empty while a dispatched URL is not yet marked complete.
NoneOnlyWhenFinished ==
    lock = {} =>
        /\ Outcome = "None" => ~has_urls(domain_queues) /\ active_workers = 0
        /\ ~has_urls(domain_queues) /\ InFlight # {} => Outcome = "wait"

\* C3: under the worker loop every worker is eventually handed None, and
\* none is handed it while a dispatched URL is not yet marked complete.
Termination ==
    /\ <>(\A w \in Workers : pc[w] = "stopped")
    /\ [](\A w \in Workers : pc[w] = "stopped" => InFlight = {})

\* C3 witness: the crawl ended after URLs of both hosts were dispatched and
\* completed.
TerminationWitness ==
    /\ \A w \in Workers : pc[w] = "stopped"
    /\ Len(dispatched) >= 3
    /\ \A i \in 1..Len(dispatched) : Completed(get_urlhash(dispatched[i].url))

\* C4: get_tbd_url never returns a URL (a URL hash) twice.
NoDuplicateDispatch ==
    \A i, j \in 1..Len(dispatched) : i # j => get_urlhash(dispatched[i].url) # get_urlhash(dispatched[j].url)

\* C4 witness: three URLs were returned, one of them is completed while
\* another is still in flight, and nothing is queued.
NoDuplicateDispatchWitness ==
    /\ Len(dispatched) >= 3
    /\ ~has_urls(domain_queues)
    /\ InFlight # {}
    /\ \E i \in 1..Len(dispatched) : Completed(get_urlhash(dispatched[i].url))

\* C5: add_url of a URL whose record exists changes neither the store, nor
\* the queues, nor last_request_time, nor active_workers.
AddUrlOfKnownIsNoOp == [][known' => UNCHANGED <<save, domain_queues, last_request_time, active_workers>>]_vars

\* C5 witness: add_url was just called on a URL whose record exists, in a
\* state with a queued, an in-flight and a completed URL.
AddUrlOfKnownWitness ==
    /\ known
    /\ has_urls(domain_queues)
    /\ InFlight # {}
    /\ \E urlhash \in DOMAIN save : save[urlhash][2]

\* C6: no step resets a completed record or removes a record.
CompletionMonotonic ==
    [][\A urlhash \in DOMAIN save : urlhash \in DOMAIN save' /\ (save[urlhash][2] => save'[urlhash][2])]_vars

\* C6 witness: add_url was just called on a known URL when every record was
\* completed, and they all still are.
CompletionMonotonicWitness ==
    /\ known
    /\ Cardinality(DOMAIN save) >= 2
    /\ \A urlhash \in DOMAIN save : save[urlhash][2]

\* C7: active_workers is never negative.
ActiveWorkersNonNegative == active_workers >= 0

\* C8: once mark_url_complete was called on an unseen URL, a pass of
\* get_tbd_url still returns a queued URL that is ready, and still returns
\* None when all queues are empty and every dispatched URL is marked
\* complete.
AnomalousCompletionHarmless ==
    Anomalous /\ lock = {} =>
        /\ (\E i \in 1..Len(domain_queues) : Elapsed(last_request_time, domain_queues[i].domain) >= time_delay) => Outcome = "url"
        /\ ~has_urls(domain_queues) /\ InFlight = {} => Outcome = "None"

\* C9: no pass of get_tbd_url keeps the lock: it ends in a return or in a
\* wait, so the lock is free whenever another call wants it.
GetNeverKeepsLock == lock = {}

\* C10: of two URLs of one host that add_url stored, the one stored first is
\* returned by get_tbd_url first.
FifoWithinHost ==
    \A i, j \in 1..Len(accepted) :
        i < j /\ _get_domain(accepted[i]) = _get_domain(accepted[j]) /\ accepted[j] \in DispatchedUrls
            => /\ accepted[i] \in DispatchedUrls
               /\ Position([k \in 1..Len(dispatched) |-> dispatched[k].url], accepted[i]) < Position([k \in 1..Len(dispatched) |-> dispatched[k].url], accepted[j])

\* C10 witness: two URLs of one host, stored by add_url in this order while
\* another host's URL was stored between or around them, were both returned.
FifoWithinHostWitness ==
    \E i, j \in 1..Len(accepted) :
        /\ i < j
        /\ _get_domain(accepted[i]) = _get_domain(accepted[j])
        /\ {accepted[i], accepted[j]} \subseteq DispatchedUrls
        /\ Len(accepted) >= 3

\* the URL a pass of get_tbd_url started in the current state would return
NextUrl ==
    IF FirstReady(domain_queues, last_request_time) = 0 THEN NoUrl
    ELSE QueueHead(domain_queues[FirstReady(domain_queues, last_request_time)].queue)

\* worker w waits in get_tbd_url while URLs are queued, all of them of hosts
\* that are cooling down
BlockedByCooldown(w) ==
    /\ pc[w] = "waiting"
    /\ has_urls(domain_queues)
    /\ FirstReady(domain_queues, last_request_time) = 0

\* C11: when add_url stores a URL of a host whose last dispatch is at least
\* time_delay old (or that has none) while a worker is blocked by cooldowns
\* alone, the worker's wait is over at once and the next pass of get_tbd_url
\* returns that URL; and a woken worker whose pass finds a ready URL is
\* returned it rather than waiting again.
CoolingHostNeverDelaysAnother ==
    [][\A w \in Workers :
          /\ (/\ BlockedByCooldown(w)
              /\ Len(accepted') = Len(accepted) + 1
              /\ SinceDispatch(_get_domain(accepted'[Len(accepted')])) >= time_delay)
                => timer'[w] = 0 /\ NextUrl' = accepted'[Len(accepted')]
          /\ (pc[w] = "waiting" /\ timer[w] = 0 /\ NextUrl # NoUrl /\ pc'[w] # "waiting")
                => Len(dispatched') = Len(dispatched) + 1 /\ dispatched'[Len(dispatched')].url = NextUrl
      ]_vars

\* C11 witness: a worker that waited for a cooling host is woken, and the URL
\* the next pass returns is the one add_url stored last, of a host that was
\* never dispatched to, while the cooling host's queue still holds a URL.
CoolingHostWitness ==
    \E w \in Workers :
        /\ pc[w] = "waiting" /\ timer[w] = 0
        /\ accepted # <<>> /\ NextUrl = accepted[Len(accepted)]
        /\ _get_domain(NextUrl) \notin DOMAIN since_dispatch
        /\ \E i \in 1..Len(domain_queues) :
              /\ domain_queues[i].queue # <<>>
              /\ ~IsReady(Elapsed(last_request_time, domain_queues[i].domain))

\* how often url is in the queue of domain
QueuedTimes(domain, url) ==
    LET i == QueueIndex(domain_queues, domain)
    IN  IF i = 0 THEN 0 ELSE Cardinality({ k \in 1..Len(domain_queues[i].queue) : domain_queues[i].queue[k] = url })

\* the URLs in the queues
QueuedUrls == UNION { { domain_queues[i].queue[k] : k \in 1..Len(domain_queues[i].queue) } : i \in 1..Len(domain_queues) }

\* the domains that have an item in the dict
QueueDomains == { domain_queues[i].domain : i \in 1..Len(domain_queues) }

\* the frontier was just constructed with restart false over a save file
\* that holds records
Resumed == boot.fresh /\ ~boot.restart /\ DOMAIN boot.store # {}

\* C12: right after a construction that resumes over a non-empty save file,
\* the store is the file's, every record that is not completed and passes
\* is_valid has its URL once in its own host's queue and in no other, and
\* nothing else is queued.
ResumeRebuild ==
    Resumed =>
        /\ save = boot.store
        /\ \A urlhash \in DOMAIN boot.store :
              LET url == boot.store[urlhash][1]
              IN  /\ QueuedTimes(_get_domain(url), url) = IF ~boot.store[urlhash][2] /\ is_valid(url) THEN 1 ELSE 0
                  /\ \A domain \in QueueDomains \ {_get_domain(url)} : QueuedTimes(domain, url) = 0
        /\ QueuedUrls \subseteq { boot.store[urlhash][1] : urlhash \in DOMAIN boot.store }

\* C12 witness: the file held a completed record, a record to be downloaded
\* and a record is_valid rejects.
ResumeRebuildWitness ==
    /\ Resumed
    /\ \E urlhash \in DOMAIN boot.store : boot.store[urlhash][2]
    /\ \E urlhash \in DOMAIN boot.store : ~boot.store[urlhash][2] /\ is_valid(boot.store[urlhash][1])
    /\ \E urlhash \in DOMAIN boot.store : ~boot.store[urlhash][2] /\ ~is_valid(boot.store[urlhash][1])

DurableBeforeVisible ==
    lock = {} =>
        /\ disk = save
        /\ \A url \in QueuedUrls \cup InFlight : get_urlhash(url) \in DOMAIN disk

\* C14 witness: a URL is queued, another is in flight, a third is completed.
DurableBeforeVisibleWitness ==
    /\ lock = {}
    /\ QueuedUrls # {}
    /\ InFlight # {}
    /\ \E urlhash \in DOMAIN disk : disk[urlhash][2]

\* u and v differ in their scheme and in nothing else, or in their fragment
\* and in nothing else
SameButSchemeOrFragment(u, v) ==
    /\ u # v
    /\ \/ [u EXCEPT !.scheme = v.scheme] = v
       \/ [u EXCEPT !.fragment = v.fragment] = v

\* C15: add_url never stores two URLs that differ only in their scheme or
\* only in their fragment.
OneRecordPerIdentity ==
    \A i, j \in 1..Len(accepted) : ~SameButSchemeOrFragment(accepted[i], accepted[j])

\* what is_duplicate(text) returns when its whole body runs on the deque
\* vectors
Returned(text, vectors) == ~Empty(_vectorize(text)) /\ Hit(_vectorize(text), vectors)

\* worker w's call returns in this step
Returns(w) == call[w].pc \in {"entered", "scanned"} /\ call'[w].pc = "done"

\* C16 as stated: when a call of is_duplicate(T) returns and no stored vector
\* was similar to T, it returns False and a call that follows it returns
\* True, whatever the text T.
DuplicateIdempotence ==
    [][\A w \in Workers :
          Returns(w) /\ ~Hit(_vectorize(call[w].text), _vectors)
              => ~call'[w].flag /\ Returned(call[w].text, _vectors')
      ]_vars

\* C16 amended: the same for every text T that has a usable token.
DuplicateIdempotenceOfTokens ==
    [][\A w \in Workers :
          Returns(w) /\ tokenize_string(call[w].text) # <<>> /\ ~Hit(_vectorize(call[w].text), _vectors)
              => ~call'[w].flag /\ Returned(call[w].text, _vectors')
      ]_vars

\* C16 witness: with the window full, a call returned False and a second
\* call of the same text by the other worker has found the vector the first
\* one appended.
DuplicateIdempotenceWitness ==
    \E w, v \in Workers :
        /\ call[w].pc = "done" /\ ~call[w].flag
        /\ call[v].pc = "scanned" /\ call[v].flag /\ call[v].text = call[w].text
        /\ Len(recent) > WindowSize
        /\ _vectors[Len(_vectors)] = _vectorize(call[w].text)

\* C17: the deque never holds more than WindowSize vectors; it holds the
\* vectors appended last, in the order they were appended; the vector
\* appended last is found by a scan, and the one appended just before the
\* window's oldest, if it is similar to none appended after it, is not.
BoundedFifoWindow ==
    /\ Len(_vectors) <= WindowSize
    /\ _vectors = LastN(recent, WindowSize)
    /\ recent # <<>> => Hit(recent[Len(recent)], _vectors)
    /\ (Len(recent) > WindowSize /\ \A i \in 2..Len(recent) : ~Matches(recent[1], recent[i]))
          => ~Hit(recent[1], _vectors)

\* C17 witness: more vectors than fit were appended, and a call that checks
\* the evicted one again has scanned the deque and found nothing.
BoundedFifoWindowWitness ==
    /\ Len(recent) > WindowSize
    /\ \E w \in Workers : call[w].pc = "scanned" /\ ~call[w].flag /\ _vectorize(call[w].text) = recent[1]

\* C18: a call that returns True leaves the deque as it was.
HitLeavesIndexUnchanged ==
    [][\A w \in Workers : Returns(w) /\ call'[w].flag => _vectors' = _vectors]_vars

\* C18 witness: a call returned True on a text whose vector matches the
\* oldest stored vector without being equal to it, the window being full.
HitLeavesIndexUnchangedWitness ==
    \E w \in Workers :
        /\ call[w].pc = "done" /\ call[w].flag
        /\ Len(_vectors) = WindowSize
        /\ Matches(_vectorize(call[w].text), _vectors[1])
        /\ _vectorize(call[w].text) # _vectors[1]

\* C19: a call on a text without tokens returns False and leaves the deque
\* as it was, whatever the deque holds.
NoTokensNeverFlagged ==
    [][\A w \in Workers :
          call[w].pc = "entered" /\ tokenize_string(call[w].text) = <<>> /\ call'[w] # call[w]
              => call'[w].pc = "done" /\ ~call'[w].flag /\ _vectors' = _vectors
      ]_vars

\* C19 witness: with the window full, both workers' calls returned, one on a
\* value that is no str and one on a text of non-alphanumeric characters.
NoTokensNeverFlaggedWitness ==
    /\ Len(_vectors) = WindowSize
    /\ \E w, v \in Workers :
          /\ call[w].pc = "done" /\ call[w].text = TextNone
          /\ call[v].pc = "done" /\ call[v].text = TextPunct

\* C20: no two stored vectors are similar to each other; and a call that
\* passed the lock returns True exactly if a stored vector is similar to its
\* own at that moment, and has appended its vector if it returns False.  So
\* of two calls with similar vectors, the one that returns first decides.
AtomicCheckThenInsert ==
    /\ [](\A i, j \in 1..Len(_vectors) : i # j => ~Matches(_vectors[i], _vectors[j]))
    /\ [][\A w \in Workers :
             call[w].pc = "scanned" /\ call'[w].pc = "done"
                 => /\ call'[w].flag = Hit(_vectorize(call[w].text), _vectors)
                    /\ ~call'[w].flag => _vectors'[Len(_vectors')] = _vectorize(call[w].text)
         ]_vars

\* C20 witness: of two workers' calls with similar, unequal vectors on an
\* empty deque one returned False and the other True, and the deque holds
\* the vector of the first alone.
AtomicCheckThenInsertWitness ==
    \E w, v \in Workers :
        /\ call[w].pc = "done" /\ ~call[w].flag
        /\ call[v].pc = "done" /\ call[v].flag
        /\ _vectorize(call[w].text) # _vectorize(call[v].text)
        /\ Matches(_vectorize(call[w].text), _vectorize(call[v].text))
        /\ recent = <<_vectorize(call[w].text)>>
        /\ _vectors = recent

\* C21: for every text T, tokenizing the space-joined tokens of T yields
\* exactly the tokens of T again, in the same order.
TokenizerFixedPoint == tk_pc = "retokenized" => tokens_out = tokens_first

\* a text with an upper-case letter, a character that is not alphanumeric
\* and two tokens has gone through the round trip
TokenizerFixedPointWitness ==
    /\ tk_pc = "retokenized"
    /\ Len(tokens_first) = 2
    /\ \E i \in 1..Len(source_text.chars) : source_text.chars[i] = "A"
    /\ \E i \in 1..Len(source_text.chars) : source_text.chars[i] \notin AsciiAlnum
    /\ joined_text.chars # source_text.chars

\* the characters of chars that are ASCII alphanumerics or whitespace
RECURSIVE AlnumOrSpace(_)
AlnumOrSpace(chars) ==
    IF chars = <<>> THEN <<>>
    ELSE (IF Head(chars) \in AsciiAlnum \cup {" "} THEN <<Head(chars)>> ELSE <<>>) \o AlnumOrSpace(Tail(chars))

\* T lowercased, without the characters that are neither ASCII alphanumerics
\* nor whitespace, split at whitespace
Characterised(text) == Split(AlnumOrSpace([k \in 1..Len(text.chars) |-> Lower(text.chars[k])]), <<>>)

\* C25: for every string T, tokenize(T) is T lowercased, without every
\* character that is not an ASCII alphanumeric, split at whitespace only: a
\* character that is neither alphanumeric nor whitespace does not split a word.
TokenizerCharacterisation ==
    tk_pc = "tokenized" /\ source_text.str => tokens_out = Characterised(source_text)

\* the hosts whose last_request_time this step writes: the time since the
\* stamp starts, or starts again
Stamped == { d \in DOMAIN last_request_time' : d \notin DOMAIN last_request_time \/ last_request_time'[d] < last_request_time[d] }

\* this step is a get_tbd_url that returns a URL
Dispatches == Len(dispatched') = Len(dispatched) + 1

\* C24: last_request_time of a host is written only by a get_tbd_url that
\* returns a URL of that host, in the step that pops the URL and increments
\* active_workers, and every such step writes it; add_url and
\* mark_url_complete leave last_request_time of every host as it is.
CooldownFromDispatch ==
    [][ /\ \A d \in Stamped :
              /\ Dispatches
              /\ d = _get_domain(dispatched'[Len(dispatched')].url)
        /\ Dispatches =>
              LET url == dispatched'[Len(dispatched')].url
              IN  /\ Stamped = {_get_domain(url)}
                  /\ last_request_time'[_get_domain(url)] = 0
                  /\ active_workers' = active_workers + 1
                  /\ url \in QueuedUrls
                  /\ url \notin QueuedUrls'
                  /\ lock' = {}
        /\ (save' # save \/ accepted' # accepted \/ active_workers' < active_workers) =>
              last_request_time' = last_request_time
      ]_vars

\* a URL of a host was returned and completed, the host's cooldown has run
\* since its dispatch, and its next URL has been returned
CooldownFromDispatchWitness ==
    /\ Len(dispatched) >= 2
    /\ _get_domain(dispatched[1].url) = _get_domain(dispatched[2].url)
    /\ Completed(get_urlhash(dispatched[1].url))
    /\ last_request_time[_get_domain(dispatched[2].url)] = 0

\* the places of the queues: item i of the dict, position k of its queue
QueuePlaces == UNION { { <<i, k>> : k \in 1..Len(domain_queues[i].queue) } : i \in 1..Len(domain_queues) }

\* how often url is in the queues, over all of them
TimesQueued(url) == Cardinality({ place \in QueuePlaces : domain_queues[place[1]].queue[place[2]] = url })

\* C26: whenever the frontier lock is free, every URL in a host queue has a
\* record in the store with completed false, is exactly once in the queues,
\* is in the queue of its own host, and no host has an empty queue.
QueueRecordConsistency ==
    lock = {} =>
        /\ \A i \in 1..Len(domain_queues) :
              /\ domain_queues[i].queue # <<>>
              /\ \A k \in 1..Len(domain_queues[i].queue) :
                    LET url == domain_queues[i].queue[k]
                    IN  /\ get_urlhash(url) \in DOMAIN save
                        /\ ~save[get_urlhash(url)][2]
                        /\ _get_domain(url) = domain_queues[i].domain
        /\ \A url \in QueuedUrls : TimesQueued(url) = 1

\* C26 without the completed flag: the part that holds under any caller
QueueRecordShape ==
    lock = {} =>
        /\ \A i \in 1..Len(domain_queues) :
              /\ domain_queues[i].queue # <<>>
              /\ \A k \in 1..Len(domain_queues[i].queue) :
                    LET url == domain_queues[i].queue[k]
                    IN  /\ get_urlhash(url) \in DOMAIN save
                        /\ _get_domain(url) = domain_queues[i].domain
        /\ \A url \in QueuedUrls : TimesQueued(url) = 1

\* add_url stored this URL's record
Accepted(url) == \E i \in 1..Len(accepted) : accepted[i] = url

\* C27: for every URL u that add_url accepted, also one ending in "/",
\* mark_url_complete(u) completes the record add_url(u) created and creates
\* no other: a record's URL that add_url stored (as normalize(u)) has no
\* record beside the one under the key add_url used.
CompletionAddressesAddedRecord ==
    \A urlhash \in DOMAIN save :
        Accepted(normalize(save[urlhash][1])) => urlhash = get_urlhash(normalize(save[urlhash][1]))

\* get_tbd_url has returned None to a worker
Exhausted == \E w \in Workers : pc[w] = "stopped"

\* how often get_tbd_url returned url
TimesDispatched(url) == Cardinality({ k \in 1..Len(dispatched) : dispatched[k].url = url })

\* C28: under the worker protocol, once get_tbd_url has returned None,
\* every URL add_url accepted in this run has been returned exactly once
\* and its record is completed, nothing is queued or in progress, and every
\* later call of get_tbd_url returns None as well.
ExhaustionCompleteAndStable ==
    /\ [](Exhausted =>
            /\ \A i \in 1..Len(accepted) :
                  /\ TimesDispatched(accepted[i]) = 1
                  /\ Completed(get_urlhash(accepted[i]))
            /\ Outcome = "None")
    /\ [][ /\ Exhausted => accepted' = accepted /\ dispatched' = dispatched
           /\ \A w \in Workers : pc[w] = "stopped" => pc'[w] = "stopped"
           /\ \A w \in Workers : Exhausted /\ pc[w] # "stopped" /\ pc'[w] \in {"working", "stopped"} => pc'[w] = "stopped"
         ]_vars

\* a crawl that accepted a link found on the way has ended: get_tbd_url
\* has returned None to one worker, and then to every other
ExhaustionCompleteAndStableWitness ==
    /\ \A w \in Workers : pc[w] = "stopped"
    /\ Len(accepted) >= 3
    /\ Len(dispatched) = Len(accepted)

\* C29: after any sequence of is_duplicate calls, sequential or concurrent,
\* no two vectors in the index have cosine similarity at or above the
\* threshold with each other, and no stored vector is empty.
PairwiseDissimilarIndex ==
    /\ \A i, j \in 1..Len(_vectors) : i # j => ~Matches(_vectors[i], _vectors[j])
    /\ \A i \in 1..Len(_vectors) : ~Empty(_vectors[i])

\* the index is full of vectors of different texts, after calls with texts
\* that have no token, with similar texts, and a call that evicted a vector
PairwiseDissimilarIndexWitness ==
    /\ Len(_vectors) = WindowSize
    /\ Len(recent) > WindowSize
    /\ \E w \in Workers : call[w].pc = "done" /\ call[w].flag
    /\ \E w \in Workers : call[w].pc = "done" /\ Empty(_vectorize(call[w].text))

\* C22: UrlFilter.is_valid never raises: for every input, also one whose
\* parsing or numeric-segment conversion fails, the call returns False; no
\* error reaches the caller.
IsValidNeverRaises == verdict \in {"none", "True", "False"}

\* a number written in decimal digits
IsNumber(segment) == segment # <<>> /\ \A k \in 1..Len(segment) : segment[k] \in AsciiDigits

\* the path has two consecutive segments Y/M, Y a 4-digit number in
\* 1900..2099 and M a number in 1..12
HasYearMonth(segments) ==
    \E i \in 1..Len(segments) - 1 :
        /\ IsNumber(segments[i]) /\ Len(segments[i]) = 4
        /\ DecimalValue(segments[i]) \in 1900..2099
        /\ IsNumber(segments[i + 1])
        /\ DecimalValue(segments[i + 1]) \in 1..12

\* is_valid was called with an http(s) URL of an allowed domain
CheckedAllowed == verdict # "none" /\ link.type = "str" /\ link.scheme \in {"http", "https"} /\ link.netloc \in AllowedNetlocs

\* the URL matches none of the extension or trap rules
NoRuleMatches(url) == ~EndsWithBinaryExtension(url) /\ ~_is_login_page(url) /\ ~HasYearMonth(url.segments) /\ ~_is_search_or_filter_page(url)

\* C23: an http/https URL on an allowed domain is rejected by is_valid
\* whenever its path has two consecutive segments Y/M, Y a 4-digit number in
\* 1900..2099 and M a number in 1..12, and an allowed-domain URL that
\* matches none of the extension or trap rules is accepted.
CalendarTrap ==
    CheckedAllowed =>
        /\ HasYearMonth(link.segments) => verdict = "False"
        /\ NoRuleMatches(link) => verdict = "True"

\* C23 for the calls of is_valid that return
CalendarTrapWhenReturned == verdict # "ValueError" => CalendarTrap

====
